---- MODULE Spec2Model ----
(***************************************************************************)
(* Repair-shop tracker (src/app.py): the relational tables and the POST    *)
(* handlers that write them, with the cash-ledger reconciliation that      *)
(* order_change_status performs on delivery and on cancellation.           *)
(*                                                                         *)
(* Money columns are db.Float.  A double is modelled by its decimal value  *)
(* in thousandths (0.125 is 125); NaN, which float() parses from "nan", is *)
(* a value of its own.  round(x, 2) rounds to the nearest hundredth; at an *)
(* exact decimal tie (x.xx5) an exactly representable operand rounds half  *)
(* to even, and an operand carrying a binary representation error rounds   *)
(* to whichever side the error puts it on: both sides are outcomes.        *)
(* Text is modelled as a sequence of tokens so that strip(), startswith()  *)
(* and the f-strings are computed rather than assumed.                     *)
(* Every request is that of a logged-in user.                              *)
(***************************************************************************)
EXTENDS Integers, Sequences, FiniteSets, TLC

\* ------------------------------------------------------------------ bounds
MaxClients == 1
MaxOrders == 1
MaxHist == 3
MaxCash == 3
MaxParts == 1
MaxRequests == 2

\* ------------------------------------------------------- python values
\* None, a float (v in thousandths) and the float NaN
PyNone == [k |-> "None", v |-> 0]
NaN == [k |-> "nan", v |-> 0]
Float(m) == [k |-> "float", v |-> m]

\* truth value of an Optional[float]: None and 0.0 are falsy, NaN is truthy
Truthy(x) == x.k = "nan" \/ (x.k = "float" /\ x.v # 0)
\* x or 0.0
Or0(x) == IF Truthy(x) THEN x ELSE Float(0)
\* x > 0 and x <= 0 on floats: every comparison with NaN is False
Gt0(x) == x.k = "float" /\ x.v > 0
Le0(x) == x.k = "float" /\ x.v <= 0

FAdd(a, b) == IF a.k = "nan" \/ b.k = "nan" THEN NaN ELSE Float(a.v + b.v)
FSub(a, b) == IF a.k = "nan" \/ b.k = "nan" THEN NaN ELSE Float(a.v - b.v)

\* the double equals its decimal value: multiples of 1/8 are binary fractions
Exact(x) == x.k = "float" /\ x.v % 125 = 0

\* round(x, 2): the possible results for the double whose decimal value is x
\* and which is exactly that value iff ex
Round2(x, ex) ==
    IF x.k # "float" THEN {x}
    ELSE LET r == x.v % 10
             lo == x.v - r
             hi == lo + 10
         IN  IF r < 5 THEN {Float(lo)}
             ELSE IF r > 5 THEN {Float(hi)}
             ELSE IF ex THEN {Float(IF (lo \div 10) % 2 = 0 THEN lo ELSE hi)}
             ELSE {Float(lo), Float(hi)}

\* ------------------------------------------------------------- text
RECURSIVE lstrip(_)
lstrip(s) == IF s # <<>> /\ Head(s) = " " THEN lstrip(Tail(s)) ELSE s

RECURSIVE rstrip(_)
rstrip(s) == IF s # <<>> /\ s[Len(s)] = " " THEN rstrip(SubSeq(s, 1, Len(s) - 1)) ELSE s

strip(s) == rstrip(lstrip(s))

startswith(s, p) == Len(s) >= Len(p) /\ SubSeq(s, 1, Len(p)) = p

\* ------------------------------------------------------- form fields
\* a text field of request.form: missing, or the submitted text
NoField == [present |-> FALSE, s |-> <<>>]
Field(s) == [present |-> TRUE, s |-> s]
\* the same for a field whose text is used whole (estado, tipo)
NoText == [present |-> FALSE, s |-> ""]
\* request.form.get(name, default)
FormGet(f, default) == IF f.present THEN f.s ELSE default

\* a numeric field as typed: missing, "", letters, "nan", or a decimal written
\* with a point or with a comma
NoNum == [present |-> FALSE, kind |-> "blank", m |-> 0]
Num(kind, m) == [present |-> TRUE, kind |-> kind, m |-> m]

parse_float(val) ==
    IF ~val.present \/ val.kind = "blank" THEN PyNone
    ELSE IF val.kind \in {"point", "comma"} THEN Float(val.m)
    ELSE IF val.kind = "nan" THEN NaN
    ELSE PyNone

\* ------------------------------------------------------------ constants
ORDER_STATES ==
    << <<"recibido", "Recibido">>, <<"diagnostico", "Diagnóstico">>,
       <<"en_proceso", "En proceso">>,
       <<"esperando_repuestos", "Esperando repuestos">>,
       <<"listo", "Listo para entregar">>, <<"entregado", "Entregado">>,
       <<"cancelado", "Cancelado">> >>

\* the keys of dict(ORDER_STATES)
StateCodes == {ORDER_STATES[i][1] : i \in DOMAIN ORDER_STATES}

\* CashEntry.order_id is NULL
NoOrder == 0

SENIA == <<"Seña">>
PAGO_FINAL == <<"Pago final">>
DEVOLUCION_SENIA == <<"Devolución seña">>

\* f"<what> orden #{order.id}"
Concepto(what, order_id) == what \o <<" orden #", ToString(order_id)>>

\* ---------------------------------------------------------------- state
VARIABLES
    settings,    \* the Settings row with id 1
    clients,     \* Client rows, by id
    orders,      \* RepairOrder rows, by id
    historial,   \* StatusHistory rows, by id
    repuestos,   \* Part rows
    part_seq,    \* last Part id handed out
    caja,        \* CashEntry rows, by id
    last,        \* the response to the latest request
    session      \* db.session of each request being served concurrently

vars == <<settings, clients, orders, historial, repuestos, part_seq, caja, last, session>>

db == <<settings, clients, orders, historial, repuestos, part_seq, caja>>

\* what a response carries: the handler, the HTTP status, the flashed message,
\* and of the request the order it names, the estado field it submitted, the
\* number of CashEntry rows it added, and whether it repeats the accepted status
\* change that came right before it; a page with cash totals carries them
Resp(op, code, flash) ==
    [op |-> op, code |-> code, flash |-> flash, order_id |-> 0, estado |-> NoText,
     added |-> 0, repeat |-> FALSE, entradas |-> PyNone, salidas |-> PyNone,
     saldo |-> PyNone]

\* SQLALCHEMY_DATABASE_URI: DATABASE_URL when it is set, else the local file
DatabaseUris == {"postgresql", "sqlite"}

\* ------------------------------------------------------------- settings
get_settings == IF settings.exists THEN settings ELSE [exists |-> TRUE, empresa |-> <<>>]

settings_save(empresa, logo) ==
    LET s == get_settings
    IN  /\ IF logo = "gif"
           THEN /\ settings' = s
                /\ last' = Resp("settings_save", 302, "El logo debe ser PNG/JPG.")
           ELSE /\ settings' = [s EXCEPT !.empresa = strip(FormGet(empresa, <<>>))]
                /\ last' = Resp("settings_save", 302, "Configuración guardada")
        /\ UNCHANGED <<clients, orders, historial, repuestos, part_seq, caja, session>>

\* -------------------------------------------------------------- clients
client_create(nombre, dni) ==
    LET n == strip(FormGet(nombre, <<>>))
        d == strip(FormGet(dni, <<>>))
    IN  /\ IF n = <<>>
           THEN /\ last' = Resp("client_create", 302, "El nombre es obligatorio")
                /\ UNCHANGED clients
           ELSE IF d = <<>>
           THEN /\ last' = Resp("client_create", 302, "El DNI es obligatorio")
                /\ UNCHANGED clients
           ELSE /\ Len(clients) < MaxClients
                /\ clients' = Append(clients, [nombre |-> n, dni |-> d])
                /\ last' = Resp("client_create", 302, "Cliente creado")
        /\ UNCHANGED <<settings, orders, historial, repuestos, part_seq, caja, session>>

client_update(client_id, nombre, dni) ==
    LET n == strip(FormGet(nombre, <<>>))
        d == strip(FormGet(dni, <<>>))
    IN  /\ IF client_id \notin DOMAIN clients
           THEN /\ last' = Resp("client_update", 404, "")
                /\ UNCHANGED clients
           ELSE IF n = <<>>
           THEN /\ last' = Resp("client_update", 302, "El nombre es obligatorio")
                /\ UNCHANGED clients
           ELSE IF d = <<>>
           THEN /\ last' = Resp("client_update", 302, "El DNI es obligatorio")
                /\ UNCHANGED clients
           ELSE /\ clients' = [clients EXCEPT ![client_id] = [nombre |-> n, dni |-> d]]
                /\ last' = Resp("client_update", 302, "Cliente actualizado")
        /\ UNCHANGED <<settings, orders, historial, repuestos, part_seq, caja, session>>

\* --------------------------------------------------------------- orders
\* StatusHistory(order=order, estado=estado, nota=nota)
\* a history row that always records the initial status
StatusHistoryRecibido(order_id, estado, nota) ==
    [order_id |-> order_id, estado |-> "recibido", nota |-> nota]

StatusHistory(order_id, estado, nota) ==
    [order_id |-> order_id, estado |-> estado, nota |-> nota]

\* CashEntry(tipo=tipo, concepto=concepto, monto=monto, order=order)
CashEntry(tipo, concepto, monto, order_id) ==
    [tipo |-> tipo, concepto |-> concepto, monto |-> monto, order_id |-> order_id]

\* the device columns (marca, modelo, problema_reportado, ...) are checked
\* where the handler checks them and are not carried in the row
order_create(client_id, marca, modelo, problema, costo, senia, estado) ==
    IF client_id \notin DOMAIN clients
    THEN /\ last' = Resp("order_create", 302, "Debe seleccionar un cliente válido.")
         /\ UNCHANGED <<db, session>>
    ELSE IF strip(FormGet(marca, <<>>)) = <<>> \/ strip(FormGet(modelo, <<>>)) = <<>>
            \/ strip(FormGet(problema, <<>>)) = <<>>
    THEN /\ last' = Resp("order_create", 302,
                         "Marca, modelo y problema reportado son obligatorios.")
         /\ UNCHANGED <<db, session>>
    ELSE LET id == Len(orders) + 1
             order == [client_id |-> client_id,
                       costo_estimado |-> parse_float(costo),
                       senia |-> Or0(parse_float(senia)),
                       estado |-> FormGet(estado, "recibido")]
             mov == IF Truthy(order.senia) /\ Gt0(order.senia)
                    THEN << CashEntry("entrada", Concepto(SENIA, id), order.senia, id) >>
                    ELSE <<>>
         IN  /\ Len(orders) < MaxOrders
             /\ Len(historial) < MaxHist
             /\ orders' = Append(orders, order)
             /\ historial' = Append(historial,
                    StatusHistory(id, order.estado, <<"Ingreso de la orden">>))
             /\ caja' = caja \o mov
             /\ last' = [Resp("order_create", 302, "Orden creada.") EXCEPT
                            !.order_id = id, !.added = Len(mov)]
             /\ UNCHANGED <<settings, clients, repuestos, part_seq, session>>

\* an edit that also books the edited deposit on the ledger
order_update_con_senia(order_id, client_id, costo, senia) ==
    /\ order_id \in DOMAIN orders
    /\ client_id \in DOMAIN clients
    /\ Len(caja) < MaxCash
    /\ orders' = [orders EXCEPT ![order_id] =
                     [@ EXCEPT !.client_id = client_id,
                               !.costo_estimado = parse_float(costo),
                               !.senia = Or0(parse_float(senia))]]
    /\ caja' = Append(caja, [tipo |-> "entrada", concepto |-> SENIA,
                             monto |-> Float(1), order_id |-> order_id])
    /\ last' = [Resp("order_update", 302, "Orden actualizada.") EXCEPT
                   !.order_id = order_id]
    /\ UNCHANGED <<settings, clients, historial, repuestos, part_seq, session>>

order_update(order_id, client_id, costo, senia) ==
    /\ IF order_id \notin DOMAIN orders
       THEN /\ last' = Resp("order_update", 404, "")
            /\ UNCHANGED orders
       ELSE IF client_id \notin DOMAIN clients
       THEN /\ last' = [Resp("order_update", 302, "Cliente inválido.") EXCEPT
                           !.order_id = order_id]
            /\ UNCHANGED orders
       ELSE /\ orders' = [orders EXCEPT ![order_id] =
                             [@ EXCEPT !.client_id = client_id,
                                       !.costo_estimado = parse_float(costo),
                                       !.senia = Or0(parse_float(senia))]]
            /\ last' = [Resp("order_update", 302, "Orden actualizada.") EXCEPT
                           !.order_id = order_id]
    /\ UNCHANGED <<settings, clients, historial, repuestos, part_seq, caja, session>>

\* ------------------------------------------------------- status change
\* order.movimientos_caja
movimientos_caja(order_id) ==
    LET linked(mov) == mov.order_id = order_id
    IN  SelectSeq(caja, linked)

\* sum((mov.monto or 0.0) for mov in movs)
RECURSIVE SumMonto(_)
SumMonto(movs) ==
    IF movs = <<>> THEN Float(0)
    ELSE FAdd(SumMonto(SubSeq(movs, 1, Len(movs) - 1)), Or0(movs[Len(movs)].monto))

AllExact(movs) == \A i \in DOMAIN movs : Exact(Or0(movs[i].monto))

\* every linked movement counted as paid, whatever its direction
PagadosSinTipo(order_id) == movimientos_caja(order_id)

\* the movements the delivery rule counts as already paid
Pagados(order_id) ==
    LET entrada(mov) == mov.tipo = "entrada"
    IN  SelectSeq(movimientos_caja(order_id), entrada)

\* every linked out-movement counted as refunded, whatever its concept
DevueltosSinPrefijo(order_id) ==
    LET salida(mov) == mov.tipo = "salida"
    IN  SelectSeq(movimientos_caja(order_id), salida)

\* the movements the cancellation rule counts as already refunded
Devueltos(order_id) ==
    LET devolucion(mov) == mov.tipo = "salida" /\ startswith(mov.concepto, DEVOLUCION_SENIA)
    IN  SelectSeq(movimientos_caja(order_id), devolucion)

\* restante = round(order.costo_estimado - total_pagado, 2)
Restante(order_id, order) ==
    LET movs == Pagados(order_id)
    IN  Round2(FSub(order.costo_estimado, SumMonto(movs)),
               Exact(order.costo_estimado) /\ AllExact(movs))

\* a_devolver = round(order.senia - total_devuelto, 2)
ADevolver(order_id, order) ==
    LET movs == Devueltos(order_id)
    IN  Round2(FSub(order.senia, SumMonto(movs)), Exact(order.senia) /\ AllExact(movs))

\* the final payment: the rows the delivery rule adds to the session
PagoFinal(order_id, order) ==
    { IF Gt0(restante)
      THEN << CashEntry("entrada", Concepto(PAGO_FINAL, order_id), restante, order_id) >>
      ELSE <<>> : restante \in Restante(order_id, order) }

\* the deposit refund: the rows the cancellation rule adds to the session
DevolucionSenia(order_id, order) ==
    { IF Gt0(a_devolver)
      THEN << CashEntry("salida", Concepto(DEVOLUCION_SENIA, order_id), a_devolver,
                        order_id) >>
      ELSE <<>> : a_devolver \in ADevolver(order_id, order) }

\* the delivery rule applied on listo as well
LogicaDeCajaListo(order_id, order, nuevo_estado) ==
    IF nuevo_estado \in {"entregado", "listo"} /\ Gt0(order.costo_estimado)
    THEN PagoFinal(order_id, order)
    ELSE IF nuevo_estado = "cancelado" /\ Gt0(order.senia)
    THEN DevolucionSenia(order_id, order)
    ELSE { <<>> }

\* the CashEntry rows the status change adds to the session
LogicaDeCaja(order_id, order, nuevo_estado) ==
    IF nuevo_estado = "entregado" /\ Truthy(order.costo_estimado) /\ Gt0(order.costo_estimado)
    THEN PagoFinal(order_id, order)
    ELSE IF nuevo_estado = "cancelado" /\ Truthy(order.senia) /\ Gt0(order.senia)
    THEN DevolucionSenia(order_id, order)
    ELSE { <<>> }

\* a check that lets a missing field through
EstadoInvalidoSiPresente(estado) == estado.present /\ estado.s \notin StateCodes

\* nuevo_estado not in dict(ORDER_STATES)
EstadoInvalido(estado) == ~(estado.present /\ estado.s \in StateCodes)

\* a handler that lets no order leave entregado or cancelado
order_change_status_terminal(order_id, estado, nota) ==
    IF order_id \notin DOMAIN orders
    THEN /\ last' = Resp("order_change_status", 404, "")
         /\ UNCHANGED <<db, session>>
    ELSE IF EstadoInvalido(estado) \/ orders[order_id].estado \in {"entregado", "cancelado"}
    THEN /\ last' = [Resp("order_change_status", 302, "Estado inválido.") EXCEPT
                        !.order_id = order_id, !.estado = estado]
         /\ UNCHANGED <<db, session>>
    ELSE LET nuevo_estado == estado.s
             order == [orders[order_id] EXCEPT !.estado = nuevo_estado]
         IN  /\ Len(historial) < MaxHist
             /\ orders' = [orders EXCEPT ![order_id] = order]
             /\ historial' = Append(historial,
                    StatusHistory(order_id, nuevo_estado, strip(FormGet(nota, <<>>))))
             /\ \E movs \in LogicaDeCaja(order_id, order, nuevo_estado) :
                    /\ caja' = caja \o movs
                    /\ last' = [Resp("order_change_status", 302, "Estado actualizado.")
                                EXCEPT !.order_id = order_id, !.estado = estado,
                                       !.added = Len(movs)]
             /\ UNCHANGED <<settings, clients, repuestos, part_seq, session>>

order_change_status(order_id, estado, nota) ==
    IF order_id \notin DOMAIN orders
    THEN /\ last' = Resp("order_change_status", 404, "")
         /\ UNCHANGED <<db, session>>
    ELSE IF EstadoInvalido(estado)
    THEN /\ last' = [Resp("order_change_status", 302, "Estado inválido.") EXCEPT
                        !.order_id = order_id, !.estado = estado]
         /\ UNCHANGED <<db, session>>
    ELSE LET nuevo_estado == estado.s
             order == [orders[order_id] EXCEPT !.estado = nuevo_estado]
         IN  /\ Len(historial) < MaxHist
             /\ orders' = [orders EXCEPT ![order_id] = order]
             /\ historial' = Append(historial,
                    StatusHistory(order_id, nuevo_estado, strip(FormGet(nota, <<>>))))
             /\ \E movs \in LogicaDeCaja(order_id, order, nuevo_estado) :
                    /\ caja' = caja \o movs
                    /\ last' = [Resp("order_change_status", 302, "Estado actualizado.")
                                EXCEPT !.order_id = order_id, !.estado = estado,
                                       !.added = Len(movs),
                                       !.repeat = /\ last.op = "order_change_status"
                                                  /\ last.flash = "Estado actualizado."
                                                  /\ last.order_id = order_id
                                                  /\ last.estado = estado]
             /\ UNCHANGED <<settings, clients, repuestos, part_seq, session>>

\* ---------------------------------------------------------------- parts
add_part(order_id, descripcion, costo) ==
    /\ IF order_id \notin DOMAIN orders
       THEN /\ last' = Resp("add_part", 404, "")
            /\ UNCHANGED <<repuestos, part_seq>>
       ELSE IF strip(FormGet(descripcion, <<>>)) = <<>>
       THEN /\ last' = [Resp("add_part", 302, "Descripción de repuesto requerida.")
                        EXCEPT !.order_id = order_id]
            /\ UNCHANGED <<repuestos, part_seq>>
       ELSE /\ part_seq < MaxParts
            /\ part_seq' = part_seq + 1
            /\ repuestos' = repuestos \cup
                   { [id |-> part_seq + 1, order_id |-> order_id,
                      descripcion |-> strip(FormGet(descripcion, <<>>)),
                      costo |-> Or0(parse_float(costo))] }
            /\ last' = [Resp("add_part", 302, "Repuesto agregado.") EXCEPT
                           !.order_id = order_id]
    /\ UNCHANGED <<settings, clients, orders, historial, caja, session>>

\* a removal that takes the ledger rows of the part's order with it
del_part_cascada(order_id, part_id) ==
    /\ \E part \in repuestos : part.id = part_id
    /\ LET part == CHOOSE r \in repuestos : r.id = part_id
           queda(mov) == mov.order_id # part.order_id
       IN  /\ repuestos' = repuestos \ {part}
           /\ caja' = SelectSeq(caja, queda)
    /\ last' = [Resp("del_part", 302, "Repuesto eliminado.") EXCEPT !.order_id = order_id]
    /\ UNCHANGED <<settings, clients, orders, historial, part_seq, session>>

del_part(order_id, part_id) ==
    /\ IF \A part \in repuestos : part.id # part_id
       THEN /\ last' = Resp("del_part", 404, "")
            /\ UNCHANGED repuestos
       ELSE /\ repuestos' = {part \in repuestos : part.id # part_id}
            /\ last' = [Resp("del_part", 302, "Repuesto eliminado.") EXCEPT
                           !.order_id = order_id]
    /\ UNCHANGED <<settings, clients, orders, historial, part_seq, caja, session>>

\* ----------------------------------------------------------------- cash
\* tipo not in ("entrada", "salida")
TipoInvalido(tipo) == ~(tipo.present /\ tipo.s \in {"entrada", "salida"})

cash_create(tipo, concepto, monto_txt, order_id) ==
    LET c == strip(FormGet(concepto, <<>>))
        monto == Or0(parse_float(monto_txt))
    IN  /\ IF TipoInvalido(tipo) \/ c = <<>> \/ Le0(monto)
           THEN /\ last' = Resp("cash_create", 302, "Completar tipo, concepto y monto (>0).")
                /\ UNCHANGED caja
           ELSE \E uri \in DatabaseUris :
                IF uri = "sqlite" /\ monto.k = "nan"
                THEN \* SQLite binds NaN as NULL: NOT NULL constraint failed
                     /\ last' = Resp("cash_create", 500, "")
                     /\ UNCHANGED caja
                ELSE /\ Len(caja) < MaxCash
                     /\ caja' = Append(caja,
                            CashEntry(tipo.s, c, monto,
                                      IF order_id \in DOMAIN orders THEN order_id
                                      ELSE NoOrder))
                     /\ last' = [Resp("cash_create", 302, "Movimiento registrado.")
                                 EXCEPT !.added = 1]
        /\ UNCHANGED <<settings, clients, orders, historial, repuestos, part_seq, session>>

\* ---------------------------------------------------------- cash totals
\* SELECT sum(monto) WHERE tipo = ... over the first n rows: NULL over no row
RECURSIVE SqlSum(_, _)
SqlSum(tipo, n) ==
    IF n = 0 THEN PyNone
    ELSE LET rest == SqlSum(tipo, n - 1)
         IN  IF caja[n].tipo # tipo THEN rest
             ELSE IF rest = PyNone THEN caja[n].monto
             ELSE FAdd(rest, caja[n].monto)

coalesce(x, default) == IF x = PyNone THEN default ELSE x

\* a query that leaves the coalesce out
TotalSinCoalesce(tipo) == SqlSum(tipo, Len(caja))

\* db.session.query(db.func.coalesce(db.func.sum(CashEntry.monto), 0.0))
\*     .filter(CashEntry.tipo == tipo).scalar() or 0.0
Total(tipo) == Or0(coalesce(SqlSum(tipo, Len(caja)), Float(0)))

\* GET /cash
cash_list ==
    /\ last' = [Resp("cash_list", 200, "") EXCEPT
                   !.entradas = Total("entrada"), !.salidas = Total("salida"),
                   !.saldo = FSub(Total("entrada"), Total("salida"))]
    /\ UNCHANGED <<db, session>>

\* GET /
index ==
    /\ last' = [Resp("index", 200, "") EXCEPT
                   !.saldo = FSub(Total("entrada"), Total("salida"))]
    /\ UNCHANGED <<db, session>>

\* ----------------------------------------------------------------- seed
seed ==
    /\ IF clients # <<>>
       THEN /\ settings' = get_settings
            /\ UNCHANGED <<clients, orders, historial, repuestos, part_seq, caja, session>>
       ELSE /\ MaxClients >= 1 /\ MaxOrders >= 1 /\ MaxHist >= 2 /\ MaxParts >= 1
            /\ settings' = get_settings
            /\ clients' = << [nombre |-> <<"Juan Pérez">>, dni |-> <<>>] >>
            /\ orders' = << [client_id |-> 1, costo_estimado |-> Float(45000000),
                             senia |-> Float(10000000), estado |-> "diagnostico"] >>
            /\ historial' = << StatusHistory(1, "recibido", <<"Ingreso">>),
                               StatusHistory(1, "diagnostico", <<"Se detecta conector">>) >>
            /\ part_seq' = part_seq + 1
            /\ repuestos' = { [id |-> part_seq + 1, order_id |-> 1,
                               descripcion |-> <<"Conector USB-C">>,
                               costo |-> Float(12000000)] }
            /\ caja' = Append(caja, CashEntry("entrada", Concepto(SENIA, 1),
                                               Float(10000000), 1))
    /\ UNCHANGED <<last, session>>

\* ------------------------------------ status change, one request of several
\* Requests served at the same time each run order_change_status in their own
\* db.session against the same database.  The handler is cut where another
\* request can come between: after the order is loaded and the new status and
\* history row are in the session; after the session is flushed and the order's
\* movements are read; at the commit.
Requests == 1..MaxRequests

NoSession ==
    [pc |-> "idle", uri |-> "", order_id |-> NoOrder, form |-> NoText, nota |-> <<>>,
     order |-> [client_id |-> 0, costo_estimado |-> PyNone, senia |-> Float(0),
                estado |-> ""],
     movs |-> <<>>, lock |-> "none"]

Open(p) == session[p].pc # "idle"

\* the flush issues UPDATE repair_order only when the status differs from the one loaded
Modifica(p) == session[p].order.estado # session[p].form.s

\* what the flush (UPDATE repair_order, INSERT status_history) has to hold until
\* the transaction ends: SQLite the database write lock, PostgreSQL the lock of
\* the order row it updates
LockWanted(p) ==
    IF session[p].uri = "sqlite" THEN "database"
    ELSE IF Modifica(p) THEN "row" ELSE "none"

Blocked(p) ==
    \E q \in Requests \ {p} :
        \/ session[q].lock = "database"
        \/ /\ LockWanted(p) = "row"
           /\ session[q].lock = "row"
           /\ session[q].order_id = session[p].order_id

\* get_or_404, the form, the validation, order.estado = nuevo_estado and
\* db.session.add(StatusHistory(...))
order_change_status_begin(p, order_id, estado, nota) ==
    /\ ~Open(p)
    /\ IF order_id \notin DOMAIN orders
       THEN /\ last' = Resp("order_change_status", 404, "")
            /\ UNCHANGED session
       ELSE IF EstadoInvalido(estado)
       THEN /\ last' = [Resp("order_change_status", 302, "Estado inválido.") EXCEPT
                           !.order_id = order_id, !.estado = estado]
            /\ UNCHANGED session
       ELSE /\ Len(historial) + Cardinality({q \in Requests : Open(q)}) < MaxHist
            /\ \E uri \in DatabaseUris :
                   /\ \A q \in Requests : Open(q) => session[q].uri = uri
                   /\ session' = [session EXCEPT ![p] =
                          [pc |-> "pending", uri |-> uri, order_id |-> order_id,
                           form |-> estado, nota |-> strip(FormGet(nota, <<>>)),
                           order |-> orders[order_id], movs |-> <<>>, lock |-> "none"]]
            /\ UNCHANGED last
    /\ UNCHANGED db

\* a flush that commits what it writes
order_change_status_flush_autocommit(p) ==
    /\ session[p].pc = "pending"
    /\ ~Blocked(p)
    /\ LET nuevo_estado == session[p].form.s
           order == [session[p].order EXCEPT !.estado = nuevo_estado]
       IN  /\ orders' = [orders EXCEPT ![session[p].order_id].estado = nuevo_estado]
           /\ historial' = Append(historial,
                  [order_id |-> session[p].order_id, estado |-> nuevo_estado,
                   nota |-> session[p].nota])
           /\ \E movs \in LogicaDeCaja(session[p].order_id, order, nuevo_estado) :
                  session' = [session EXCEPT ![p].pc = "flushed", ![p].movs = movs,
                                             ![p].lock = LockWanted(p)]
    /\ UNCHANGED <<settings, clients, repuestos, part_seq, caja, last>>

\* the session is flushed (before order.movimientos_caja is loaded, or else by
\* the commit) and the cash logic reads the movements committed so far
order_change_status_flush(p) ==
    /\ session[p].pc = "pending"
    /\ ~Blocked(p)
    /\ LET nuevo_estado == session[p].form.s
           order == [session[p].order EXCEPT !.estado = nuevo_estado]
       IN  \E movs \in LogicaDeCaja(session[p].order_id, order, nuevo_estado) :
               session' = [session EXCEPT ![p].pc = "flushed", ![p].movs = movs,
                                          ![p].lock = LockWanted(p)]
    /\ UNCHANGED <<db, last>>

\* a commit that works the cash logic out again on what is committed by then
order_change_status_commit_relee(p) ==
    /\ session[p].pc = "flushed"
    /\ LET order_id == session[p].order_id
           nuevo_estado == session[p].form.s
           order == [session[p].order EXCEPT !.estado = nuevo_estado]
       IN  /\ orders' = [orders EXCEPT ![order_id].estado = nuevo_estado]
           /\ historial' = Append(historial,
                               StatusHistory(order_id, nuevo_estado, session[p].nota))
           /\ \E movs \in LogicaDeCaja(order_id, order, nuevo_estado) :
                  /\ caja' = caja \o movs
                  /\ last' = [Resp("order_change_status", 302, "Estado actualizado.")
                              EXCEPT !.order_id = order_id, !.estado = session[p].form,
                                     !.added = Len(movs)]
    /\ session' = [session EXCEPT ![p] = NoSession]
    /\ UNCHANGED <<settings, clients, repuestos, part_seq>>

\* db.session.commit() and the redirect
order_change_status_commit(p) ==
    /\ session[p].pc = "flushed"
    /\ LET order_id == session[p].order_id
           nuevo_estado == session[p].form.s
       IN  /\ orders' = IF Modifica(p)
                        THEN [orders EXCEPT ![order_id].estado = nuevo_estado]
                        ELSE orders
           /\ historial' = Append(historial,
                               StatusHistory(order_id, nuevo_estado, session[p].nota))
           /\ caja' = caja \o session[p].movs
           /\ last' = [Resp("order_change_status", 302, "Estado actualizado.")
                       EXCEPT !.order_id = order_id, !.estado = session[p].form,
                              !.added = Len(session[p].movs)]
    /\ session' = [session EXCEPT ![p] = NoSession]
    /\ UNCHANGED <<settings, clients, repuestos, part_seq>>

\* the request ends before its commit (the worker dies, a statement fails or
\* times out waiting for a lock): the transaction is rolled back
order_change_status_abort(p) ==
    /\ Open(p)
    /\ session' = [session EXCEPT ![p] = NoSession]
    /\ last' = [Resp("order_change_status", 500, "") EXCEPT
                   !.order_id = session[p].order_id, !.estado = session[p].form]
    /\ UNCHANGED db

\* --------------------------------------------------- submitted form values
A54 == Field(<<"A54", " ">>)

\* POST /clients/new and /clients/<id>/edit
ClientForms == { [nombre |-> Field(<<" ", "Ana">>), dni |-> Field(<<"30111222">>)] }

\* POST /orders/new
OrderForm(client_id, marca, costo, senia, estado) ==
    [client_id |-> client_id, marca |-> marca, modelo |-> A54, problema |-> A54,
     costo |-> costo, senia |-> senia, estado |-> estado]

OrderForms ==
    { OrderForm(1, A54, Num("point", 125), Num("point", 0), NoText),
      OrderForm(1, A54, Num("comma", 30), Num("comma", 10), Field("listo")),
      OrderForm(1, A54, Num("point", 0), Num("point", 125), Field("otro")) }

\* POST /orders/<id>/edit
EditForms == { [client_id |-> 1, costo |-> Num("blank", 0), senia |-> Num("letters", 0)] }

\* POST /orders/<id>/status
EstadoForm == {NoText, Field("otro")} \cup {Field(e) : e \in StateCodes}
NotaForm == {Field(<<" ">>)}

\* POST /cash/new
CashForm(tipo, concepto, monto, order_id) ==
    [tipo |-> tipo, concepto |-> concepto, monto |-> monto, order_id |-> order_id]

VARIOS == Field(<<"Varios">>)

CashForms ==
    { CashForm(NoText, VARIOS, Num("point", 10), 0),
      CashForm(Field("otro"), VARIOS, Num("point", 10), 0),
      CashForm(Field("entrada"), Field(<<" ">>), Num("point", 10), 0),
      CashForm(Field("entrada"), VARIOS, NoNum, 0),
      CashForm(Field("entrada"), VARIOS, Num("point", 0), 0),
      CashForm(Field("salida"), VARIOS, Num("point", -10), 0),
      CashForm(Field("entrada"), VARIOS, Num("nan", 0), 0),
      CashForm(Field("entrada"), VARIOS, Num("comma", 10), 1),
      CashForm(Field("salida"), VARIOS, Num("point", 10), 1),
      CashForm(Field("salida"), Field(<<" ">> \o DEVOLUCION_SENIA \o <<" parcial">>),
               Num("point", 10), 1) }

\* ----------------------------------------------------------- behaviour
Init ==
    /\ settings = [exists |-> FALSE, empresa |-> <<>>]
    /\ clients = <<>>
    /\ orders = <<>>
    /\ historial = <<>>
    /\ repuestos = {}
    /\ part_seq = 0
    /\ caja = <<>>
    /\ last = Resp("", 0, "")
    /\ session = [p \in Requests |-> NoSession]

\* the requests that write orders, their history and the cash ledger
Next ==
    \/ seed
    \/ \E f \in ClientForms : client_create(f.nombre, f.dni)
    \/ \E f \in OrderForms :
           order_create(f.client_id, f.marca, f.modelo, f.problema, f.costo, f.senia,
                        f.estado)
    \/ \E order_id \in 1..MaxOrders, f \in EditForms :
           order_update(order_id, f.client_id, f.costo, f.senia)
    \/ \E order_id \in 1..MaxOrders, estado \in EstadoForm, nota \in NotaForm :
           order_change_status(order_id, estado, nota)
    \/ \E f \in CashForms : cash_create(f.tipo, f.concepto, f.monto, f.order_id)

Spec == Init /\ [][Next]_vars

\* ------------------------------------------- every handler that writes
\* forms for the handlers Next leaves out, and the refusals of the others
A54Blank == Field(<<" ">>)

AllClientForms ==
    ClientForms \cup
    { [nombre |-> NoField, dni |-> Field(<<"30111222">>)],
      [nombre |-> Field(<<"Eva">>), dni |-> Field(<<" ">>)] }

AllOrderForms ==
    { OrderForm(0, A54, NoNum, NoNum, NoText),
      OrderForm(1, A54Blank, NoNum, NoNum, NoText),
      OrderForm(1, A54, Num("letters", 0), NoNum, NoText),
      OrderForm(1, A54, Num("comma", 30), Num("comma", 10), NoText) }

AllEditForms == EditForms \cup { [client_id |-> 0, costo |-> NoNum, senia |-> NoNum] }

AllEstadoForm == {Field("otro"), Field("listo"), Field("entregado"), Field("cancelado")}

SettingsForms ==
    { [empresa |-> Field(<<"SAT", " ">>), logo |-> "png"],
      [empresa |-> Field(<<"SAT", " ">>), logo |-> "gif"] }

PartForms ==
    { [descripcion |-> Field(<<" ">>), costo |-> NoNum],
      [descripcion |-> Field(<<"Pin de carga">>), costo |-> Num("comma", 12000)] }

AllCashForms ==
    { CashForm(Field("entrada"), VARIOS, Num("point", 0), 0),
      CashForm(Field("entrada"), VARIOS, Num("comma", 10), 1) }

NextAll ==
    \/ seed
    \/ \E f \in SettingsForms : settings_save(f.empresa, f.logo)
    \/ \E f \in AllClientForms : client_create(f.nombre, f.dni)
    \/ \E client_id \in 1..MaxClients, f \in AllClientForms :
           client_update(client_id, f.nombre, f.dni)
    \/ \E f \in AllOrderForms :
           order_create(f.client_id, f.marca, f.modelo, f.problema, f.costo, f.senia,
                        f.estado)
    \/ \E order_id \in 1..MaxOrders, f \in AllEditForms :
           order_update(order_id, f.client_id, f.costo, f.senia)
    \/ \E order_id \in 1..MaxOrders, estado \in AllEstadoForm, nota \in NotaForm :
           order_change_status(order_id, estado, nota)
    \/ \E order_id \in 1..MaxOrders, f \in PartForms :
           add_part(order_id, f.descripcion, f.costo)
    \/ \E order_id \in 1..MaxOrders, part_id \in 1..MaxParts : del_part(order_id, part_id)
    \/ \E f \in AllCashForms : cash_create(f.tipo, f.concepto, f.monto, f.order_id)

SpecAll == Init /\ [][NextAll]_vars

\* ------------------------------------------------- requests side by side
\* POST /orders/new for the orders two requests then go for
TxOrderForms ==
    { OrderForm(1, A54, Num("comma", 30), Num("comma", 10), Field("listo")),
      OrderForm(1, A54, Num("comma", 30), Num("comma", 10), Field("entregado")) }

TxEstadoForm == {Field("otro"), Field("listo"), Field("entregado"), Field("cancelado")}

NextTx ==
    \/ \E f \in ClientForms : client_create(f.nombre, f.dni)
    \/ \E f \in TxOrderForms :
           order_create(f.client_id, f.marca, f.modelo, f.problema, f.costo, f.senia,
                        f.estado)
    \/ \E p \in Requests, order_id \in 1..MaxOrders, estado \in TxEstadoForm,
          nota \in NotaForm :
           order_change_status_begin(p, order_id, estado, nota)
    \/ \E p \in Requests : order_change_status_flush(p)
    \/ \E p \in Requests : order_change_status_commit(p)
    \/ \E p \in Requests : order_change_status_abort(p)

SpecTx == Init /\ [][NextTx]_vars

\* ------------------------------------------------ the ledger and its totals
\* POST /cash/new: 100 in, 40 out, 5 in, and an amount that is not a number
LedgerForms ==
    { CashForm(Field("entrada"), VARIOS, Num("point", 100000), 0),
      CashForm(Field("salida"), VARIOS, Num("point", 40000), 0),
      CashForm(Field("entrada"), VARIOS, Num("comma", 5000), 0),
      CashForm(Field("salida"), VARIOS, Num("nan", 0), 0) }

NextCaja ==
    \/ \E f \in LedgerForms : cash_create(f.tipo, f.concepto, f.monto, f.order_id)
    \/ cash_list
    \/ index

SpecCaja == Init /\ [][NextCaja]_vars

\* ======================================================== properties
\* the seven status codes, written out
SevenStates ==
    {"recibido", "diagnostico", "en_proceso", "esperando_repuestos", "listo",
     "entregado", "cancelado"}

\* this step is the status-change request that the handler accepted
Accepted ==
    /\ last'.op = "order_change_status"
    /\ last'.flash = "Estado actualizado."
    /\ historial' # historial

AcceptedTo(estado) == Accepted /\ last'.estado = Field(estado)

\* the latest response is an accepted status change to estado
DidChangeTo(estado) ==
    /\ last.op = "order_change_status"
    /\ last.flash = "Estado actualizado."
    /\ last.estado = Field(estado)

\* sum of the amounts of the first n ledger rows that are linked to order o,
\* have direction tipo and, when prefix is not empty, a concept starting with it
RECURSIVE LedgerSum(_, _, _, _)
LedgerSum(o, tipo, prefix, n) ==
    IF n = 0 THEN Float(0)
    ELSE IF /\ caja[n].order_id = o
            /\ caja[n].tipo = tipo
            /\ Len(caja[n].concepto) >= Len(prefix)
            /\ \A i \in DOMAIN prefix : caja[n].concepto[i] = prefix[i]
         THEN FAdd(LedgerSum(o, tipo, prefix, n - 1), caja[n].monto)
         ELSE LedgerSum(o, tipo, prefix, n - 1)

\* the operands of that sum are all exactly representable
LedgerExact(o, tipo, prefix) ==
    \A n \in DOMAIN caja :
        ( /\ caja[n].order_id = o
          /\ caja[n].tipo = tipo
          /\ Len(caja[n].concepto) >= Len(prefix)
          /\ \A i \in DOMAIN prefix : caja[n].concepto[i] = prefix[i] )
        => Exact(caja[n].monto)

\* the step appends exactly one ledger row: direction tipo, amount monto,
\* linked to order o and naming o in its concept
AppendsOne(o, tipo, monto) ==
    /\ Len(caja') = Len(caja) + 1
    /\ SubSeq(caja', 1, Len(caja)) = caja
    /\ LET mov == caja'[Len(caja')]
       IN  /\ mov.tipo = tipo
           /\ mov.monto = monto
           /\ mov.order_id = o
           /\ \E i \in DOMAIN mov.concepto : mov.concepto[i] = ToString(o)

\* ------------------------------------------------------------------- C1
\* C1: a status-change request for an existing order whose estado field is
\* missing or is not one of the seven codes is answered "Estado inválido." and
\* leaves orders, historial and caja as they were.
C1_InvalidStatusRejected ==
    [][ ( /\ last'.op = "order_change_status"
          /\ last'.code = 302
          /\ ~(last'.estado.present /\ last'.estado.s \in SevenStates) )
        => ( /\ last'.flash = "Estado inválido."
             /\ UNCHANGED <<orders, historial, caja>> ) ]_vars

\* an order with history exists and a request without the estado field was refused
C1_Witness ==
    /\ last.op = "order_change_status"
    /\ last.flash = "Estado inválido."
    /\ last.estado = NoText
    /\ last.order_id \in DOMAIN orders
    /\ historial # <<>>

\* ------------------------------------------------------------------- C2
HistoryOf(o) == {i \in DOMAIN historial : historial[i].order_id = o}

Latest(S) == CHOOSE i \in S : \A j \in S : j <= i

C3_FinalPaymentUnrounded ==
    [][ AcceptedTo("entregado") =>
        LET o == last'.order_id
            cost == orders[o].costo_estimado
            remaining == FSub(cost, LedgerSum(o, "entrada", <<>>, Len(caja)))
        IN  IF Gt0(cost) /\ Gt0(remaining)
            THEN AppendsOne(o, "entrada", remaining)
            ELSE caja' = caja ]_vars

\* C3 amended: delivery appends a final payment iff estimated_cost > 0 and
\* remaining = round(estimated_cost - paid, 2) > 0, and then exactly one row:
\* direction in, amount = remaining, linked to the order, naming it in its concept;
\* with estimated_cost null or 0 it appends nothing.
C3_FinalPaymentRounded ==
    [][ AcceptedTo("entregado") =>
        LET o == last'.order_id
            cost == orders[o].costo_estimado
            paid == LedgerSum(o, "entrada", <<>>, Len(caja))
        IN  IF Gt0(cost)
            THEN \E remaining \in Round2(FSub(cost, paid),
                                         Exact(cost) /\ LedgerExact(o, "entrada", <<>>)) :
                     IF Gt0(remaining)
                     THEN AppendsOne(o, "entrada", remaining)
                     ELSE caja' = caja
            ELSE caja' = caja ]_vars

\* cost 45000 with one prior in-entry of 10000: delivery added one in-entry of 35000
C3_Witness ==
    /\ DidChangeTo("entregado")
    /\ last.added = 1
    /\ orders[last.order_id].costo_estimado = Float(45000000)
    /\ Len(caja) = 2
    /\ caja[1].monto = Float(10000000)
    /\ caja[2].tipo = "entrada"
    /\ caja[2].monto = Float(35000000)

\* ------------------------------------------------------------------- C4
\* C4 as stated: cancellation appends a refund iff deposit > 0 and
\* to_refund = deposit - refunded > 0, and then exactly one row with
\* amount = to_refund.
C4_RefundUnrounded ==
    [][ AcceptedTo("cancelado") =>
        LET o == last'.order_id
            deposit == orders[o].senia
            to_refund == FSub(deposit, LedgerSum(o, "salida", DEVOLUCION_SENIA, Len(caja)))
        IN  IF Gt0(deposit) /\ Gt0(to_refund)
            THEN AppendsOne(o, "salida", to_refund)
            ELSE caja' = caja ]_vars

\* C4 amended: cancellation appends a refund iff deposit > 0 and
\* to_refund = round(deposit - refunded, 2) > 0, refunded being the sum of the
\* order's out-entries whose concept starts with the refund prefix, and then
\* exactly one row: direction out, amount = to_refund, linked to the order; with
\* deposit 0 it appends nothing.
C4_RefundRounded ==
    [][ AcceptedTo("cancelado") =>
        LET o == last'.order_id
            deposit == orders[o].senia
            refunded == LedgerSum(o, "salida", DEVOLUCION_SENIA, Len(caja))
        IN  IF Gt0(deposit)
            THEN \E to_refund \in
                     Round2(FSub(deposit, refunded),
                            Exact(deposit) /\ LedgerExact(o, "salida", DEVOLUCION_SENIA)) :
                     IF Gt0(to_refund)
                     THEN AppendsOne(o, "salida", to_refund)
                     ELSE caja' = caja
            ELSE caja' = caja ]_vars

\* deposit 10000 and no earlier refund: cancellation added one out-entry of 10000
C4_Witness ==
    /\ DidChangeTo("cancelado")
    /\ last.added = 1
    /\ orders[last.order_id].senia = Float(10000000)
    /\ Len(caja) = 2
    /\ caja[2].tipo = "salida"
    /\ caja[2].monto = Float(10000000)

\* ------------------------------------------------------------------- C5
\* C5: a delivery that repeats the delivery accepted right before it, for the
\* same order, appends nothing to the ledger.
C5_SecondDeliveryAddsNothing ==
    [][ (AcceptedTo("entregado") /\ last'.repeat) => caja' = caja ]_vars

\* ------------------------------------------------------------------- C6
\* C6: a cancellation that repeats the cancellation accepted right before it,
\* for the same order, appends nothing to the ledger.
C6_SecondCancellationAddsNothing ==
    [][ (AcceptedTo("cancelado") /\ last'.repeat) => caja' = caja ]_vars

\* ------------------------------------------------------------------- C7
\* C7: an accepted status change appends at most one ledger row and rewrites
\* none, and one whose target is recibido, diagnostico, en_proceso,
\* esperando_repuestos or listo leaves the ledger unchanged.
C7_OnlyDeliveryAndCancellationWrite ==
    [][ Accepted =>
        /\ \/ caja' = caja
           \/ /\ Len(caja') = Len(caja) + 1
              /\ SubSeq(caja', 1, Len(caja)) = caja
        /\ last'.estado.s \in (SevenStates \ {"entregado", "cancelado"}) => caja' = caja
      ]_vars

\* an order with a cost and a deposit, and payments on the ledger, was moved to
\* esperando_repuestos
C7_Witness ==
    /\ DidChangeTo("esperando_repuestos")
    /\ Gt0(orders[last.order_id].costo_estimado)
    /\ Gt0(orders[last.order_id].senia)
    /\ caja # <<>>

\* ------------------------------------------------------------------- C8
\* the command-line seed ran on an empty database
Seeded == clients = <<>> /\ clients' # <<>> /\ last' = last

\* C8 as stated: a request that changes the ledger is a status change or a
\* manual cash entry; creating an order leaves the ledger unchanged.  The field
\* last.op names the handler of the latest request; the seed command answers no
\* request and leaves it alone.
C8_OnlyStatusAndManualWrite ==
    [][ (caja' # caja /\ ~Seeded) =>
        last'.op \in {"order_change_status", "cash_create"} ]_vars

\* C8 amended: the ledger changes only through a status change, a manual cash
\* entry, the creation of an order (which books a positive deposit as one
\* in-entry of that amount linked to the new order) or the seed command; editing
\* an order, adding or removing a part, and client and settings requests leave
\* it unchanged.
C8_LedgerWriters ==
    [][ /\ caja' # caja =>
           \/ Seeded
           \/ last'.op \in {"order_change_status", "cash_create", "order_create"}
        /\ (last'.op = "order_create" /\ caja' # caja /\ ~Seeded) =>
           /\ Len(orders') = Len(orders) + 1
           /\ Gt0(orders'[Len(orders')].senia)
           /\ caja' = Append(caja, [tipo |-> "entrada",
                                    concepto |-> <<"Seña", " orden #", ToString(Len(orders'))>>,
                                    monto |-> orders'[Len(orders')].senia,
                                    order_id |-> Len(orders')])
        /\ (last'.op \in {"order_update", "add_part", "del_part", "client_create",
                          "client_update", "settings_save"} /\ ~Seeded) => caja' = caja
      ]_vars

\* an order whose deposit is on the ledger has just been edited
C8_Witness ==
    /\ last.op = "order_update"
    /\ last.flash = "Orden actualizada."
    /\ \E n \in DOMAIN caja : caja[n].order_id = last.order_id /\ caja[n].tipo = "entrada"

\* ------------------------------------------------------------------- C9
\* C9: every CashEntry has amount > 0 and direction entrada or salida.
C9_AmountsPositive ==
    \A n \in DOMAIN caja : Gt0(caja[n].monto) /\ caja[n].tipo \in {"entrada", "salida"}

\* ------------------------------------------------------------------ C10
\* C10: every order's status is one of the seven codes.
C10_StatusInEnumeration == \A o \in DOMAIN orders : orders[o].estado \in SevenStates

\* ------------------------------------------------------------------ C11
\* seq is still the beginning of seq2
Extends(seq2, seq) == Len(seq2) >= Len(seq) /\ SubSeq(seq2, 1, Len(seq)) = seq

\* C11: every step keeps each StatusHistory row and each CashEntry row it
\* found, with the same field values; steps only add rows.
C11_AppendOnly == [][ Extends(historial', historial) /\ Extends(caja', caja) ]_vars

\* a part has just been removed from an order that has history and ledger rows
C11_Witness ==
    /\ last.op = "del_part"
    /\ last.flash = "Repuesto eliminado."
    /\ repuestos = {}
    /\ \E n \in DOMAIN historial : historial[n].order_id = last.order_id
    /\ \E n \in DOMAIN caja : caja[n].order_id = last.order_id

\* ------------------------------------------------------------------ C12
\* the step gives order o a new status or a new history row
StatusWritten(o) ==
    \/ orders'[o].estado # orders[o].estado
    \/ Len(historial') > Len(historial) /\ historial'[Len(historial')].order_id = o

\* C12: a step that changes an order's status or adds a history row for it is
\* the commit of one request, and it writes together the status, the history
\* row with that status and the ledger rows the request had due; a request that
\* stops before its commit leaves orders, history and ledger as they were.
C12_AtomicCommit ==
    [][ /\ \A o \in DOMAIN orders :
               StatusWritten(o) =>
                   \E p \in Requests :
                       /\ session[p].pc = "flushed"
                       /\ session[p].order_id = o
                       /\ session'[p].pc = "idle"
                       /\ orders'[o].estado # orders[o].estado
                              => orders'[o].estado = session[p].form.s
                       /\ historial' = Append(historial,
                              [order_id |-> o, estado |-> session[p].form.s,
                               nota |-> session[p].nota])
                       /\ caja' = caja \o session[p].movs
        /\ historial' = historial => (orders' = orders /\ caja' = caja)
      ]_vars

\* one request has failed and another is stopped after its flush with a final
\* payment due: the committed order still has the status both found
C12_Witness ==
    /\ last.op = "order_change_status"
    /\ last.code = 500
    /\ \E p \in Requests :
           /\ session[p].pc = "flushed"
           /\ session[p].movs # <<>>
           /\ session[p].order_id = last.order_id
           /\ session[p].form.s # orders[session[p].order_id].estado
           /\ orders[session[p].order_id].estado = session[p].order.estado

\* ------------------------------------------------------------------ C14
\* request p has read the ledger and holds a final payment for order o
HoldsFinalPayment(p, o) ==
    /\ session[p].pc = "flushed"
    /\ session[p].order_id = o
    /\ session[p].form = Field("entregado")
    /\ session[p].movs # <<>>

\* C14: when two requests to deliver the same order have both read its ledger
\* rows before either commits, nothing holds the second back: each commit appends
\* the final payment its request worked out, so the order ends with two.
C14_RaceDuplicatesFinalPayment ==
    [][ \A p, q \in Requests, o \in DOMAIN orders :
            ( /\ p # q
              /\ HoldsFinalPayment(p, o)
              /\ HoldsFinalPayment(q, o) \/ ~Open(q)
              /\ session'[p].pc = "idle"
              /\ historial' # historial )
            => /\ caja' = caja \o session[p].movs
               /\ session'[q] = session[q] ]_vars

\* an order of cost 0.03 with a deposit of 0.01 on the ledger has two final
\* payments of 0.02
C14_Witness ==
    \E o \in DOMAIN orders : \E i, j \in DOMAIN caja :
        /\ i < j
        /\ orders[o].costo_estimado = Float(30)
        /\ \A n \in {i, j} :
               /\ caja[n].order_id = o
               /\ caja[n].tipo = "entrada"
               /\ caja[n].concepto = <<"Pago final", " orden #", ToString(o)>>
               /\ caja[n].monto = Float(20)

\* ------------------------------------------------------------------ C13
\* the amounts of direction tipo added up from the first row on, 0 over no row
RECURSIVE LedgerTotal(_, _)
LedgerTotal(ledger, tipo) ==
    IF ledger = <<>> THEN Float(0)
    ELSE LET later == LedgerTotal(Tail(ledger), tipo)
         IN  IF Head(ledger).tipo = tipo THEN FAdd(Head(ledger).monto, later) ELSE later

\* C13: the totals a cash page shows are the sum of the amounts of all entrada
\* rows and of all salida rows now on the ledger, 0 rather than null when there
\* is none, and its balance is the first minus the second.
C13_BalanceIsInMinusOut ==
    /\ last.op = "cash_list" =>
           /\ last.entradas = LedgerTotal(caja, "entrada")
           /\ last.salidas = LedgerTotal(caja, "salida")
    /\ last.op \in {"cash_list", "index"} =>
           last.saldo = FSub(LedgerTotal(caja, "entrada"), LedgerTotal(caja, "salida"))

\* the ledger is [in 100, out 40, in 5] and the cash page shows a balance of 65
C13_Witness ==
    /\ last.op = "cash_list"
    /\ Len(caja) = 3
    /\ caja[1].tipo = "entrada" /\ caja[1].monto = Float(100000)
    /\ caja[2].tipo = "salida" /\ caja[2].monto = Float(40000)
    /\ caja[3].tipo = "entrada" /\ caja[3].monto = Float(5000)
    /\ last.saldo = Float(65000)

\* ------------------------------------------------------------------ C15
\* the amounts of the rows of ledger that are linked to order o, have direction
\* tipo and a concept starting with prefix, added up
RECURSIVE OrderTotal(_, _, _, _)
OrderTotal(ledger, o, tipo, prefix) ==
    IF ledger = <<>> THEN Float(0)
    ELSE LET mov == Head(ledger)
             later == OrderTotal(Tail(ledger), o, tipo, prefix)
         IN  IF /\ mov.order_id = o
                /\ mov.tipo = tipo
                /\ Len(mov.concepto) >= Len(prefix)
                /\ SubSeq(mov.concepto, 1, Len(prefix)) = prefix
             THEN FAdd(mov.monto, later)
             ELSE later

\* C15: the final payments of an order never add up to more than its
\* estimated cost, and right after a delivery that appended a final payment the
\* order's entrada rows add up to the estimated cost exactly.  (The only edit of
\* this model blanks the cost, so a cost > 0 is the one the order was created with.)
C15_NeverOverCollects ==
    [][ /\ \A o \in DOMAIN orders' :
               Gt0(orders'[o].costo_estimado) =>
                   LET finals == OrderTotal(caja', o, "entrada", <<"Pago final">>)
                   IN  finals.k = "float" /\ finals.v <= orders'[o].costo_estimado.v
        /\ (AcceptedTo("entregado") /\ caja' # caja) =>
               OrderTotal(caja', last'.order_id, "entrada", <<>>)
                   = orders'[last'.order_id].costo_estimado
      ]_vars

\* ------------------------------------------------------------------ C16
\* C16: a status-change request for an existing order that names one of the
\* seven codes is accepted whatever the order's current status, the same code
\* and entregado or cancelado included: it sets the order's status to the target
\* and appends exactly one history row for the order with that status.
C16_NoTransitionGuard ==
    [][ /\ ( /\ last'.op = "order_change_status"
             /\ last'.code = 302
             /\ last'.estado.present
             /\ last'.estado.s \in SevenStates )
           => last'.flash = "Estado actualizado."
        /\ Accepted =>
               LET o == last'.order_id
               IN  /\ orders'[o].estado = last'.estado.s
                   /\ Len(historial') = Len(historial) + 1
                   /\ SubSeq(historial', 1, Len(historial)) = historial
                   /\ historial'[Len(historial')].order_id = o
                   /\ historial'[Len(historial')].estado = last'.estado.s
      ]_vars

\* an order was cancelled and then delivered: its deposit was refunded and its
\* final payment collected
C16_Witness ==
    /\ DidChangeTo("entregado")
    /\ last.added = 1
    /\ Cardinality(HistoryOf(last.order_id)) = 3
    /\ historial[2].estado = "cancelado"
    /\ historial[3].estado = "entregado"
    /\ \E n \in DOMAIN caja :
           /\ caja[n].order_id = last.order_id
           /\ caja[n].tipo = "salida"
           /\ caja[n].concepto = <<"Devolución seña", " orden #", ToString(last.order_id)>>
    /\ caja[Len(caja)].tipo = "entrada"
    /\ caja[Len(caja)].concepto = <<"Pago final", " orden #", ToString(last.order_id)>>

====
